---- MODULE Spec2Model ----
(***************************************************************************)
(* Model of Resources/camera.py: the RingBuffer (push / pop / sync under   *)
(* one Lock), the CameraDataThread producer and the Camera controller.     *)
(*                                                                         *)
(* Units.  Python floats are modelled as fixed-point integers:             *)
(*   framerate           tenths of Hz        (10 Hz   -> 100)              *)
(*   exposuretime        tenths of ms        (1 ms    -> 10)               *)
(*   thread frame time   microseconds        (1.0 s   -> 1000000)          *)
(*   width/height input  tenths of a pixel   (640.5   -> 6405)             *)
(*   width/height stored whole pixels        (int(640.5) -> 640)           *)
(* A call argument is a record [num, v]: num is isinstance(x, Number).     *)
(* A Frame is identified by its push order 1, 2, ...; 0 is Python's None.  *)
(***************************************************************************)
EXTENDS Integers, Sequences, FiniteSets, TLC

\* ------------------------------------------------------------------ bounds
\* A RingBuffer used on its own: capacities 1..MaxCapacity, at most MaxPushes pushes.
MaxCapacity == 3
MaxPushes == 5
\* A Camera: its RingBuffer(100) is scaled to CamCapacity slots, and its producer
\* pushes at most CamMaxPushes frames (more than one lap of the buffer).
CamCapacity == 2
CamMaxPushes == 3

VARIABLES
  size,               \* RingBuffer.__size
  frames,             \* RingBuffer.__frames : slot -> frame id, 0 = None
  write_index,        \* RingBuffer.__write_index
  read_index,         \* RingBuffer.__read_index
  write_count,        \* RingBuffer.__write_count
  read_count,         \* RingBuffer.__read_count
  lock,               \* RingBuffer.__lock : TRUE when held
  ppc,                \* position of the producer (thread calling push)
  cpc,                \* position of the caller (thread calling pop / sync / Camera)
  op,                 \* the caller's current (or last completed) call
  arg,                \* its argument (get_frame: the timeout, in sleep ticks)
  ret,                \* its result: "True", "False", "None", "Frame", a raised error, "-" while running
  pop_result,         \* what the last RingBuffer.pop produced (0 = None)
  features,           \* Camera.__features
  thread,             \* Camera.__thread and the CameraDataThread it refers to
  gf_spent,           \* get_frame: time_spent
  pushed,             \* history: number of completed push bodies (= id of the newest frame)
  popped,             \* history: frames returned by non-empty pops since the last sync, in order
  sync_at,            \* history: value of pushed when the last sync ran, -1 before any sync
  sync_dropped,       \* history: readable frames discarded by the last sync
  first_pop_at        \* history: value of pushed when the first pop since the last sync ran, -1 before it

rbvars == <<size, frames, write_index, read_index, write_count, read_count, lock>>
histvars == <<pushed, popped, sync_at, sync_dropped, first_pop_at>>
camvars == <<features, thread, gf_spent>>
callvars == <<op, arg, ret>>
vars == <<rbvars, ppc, cpc, callvars, pop_result, camvars, histvars>>

\* ------------------------------------------------------------- arguments
Num(x) == [num |-> TRUE, v |-> x]
NotANumber == [num |-> FALSE, v |-> 0]
NoArg == [num |-> FALSE, v |-> 0]

\* isinstance(value, numbers.Number)
IsNumber(a) == a.num

\* ------------------------------------------------------ CameraDataThread
\* Camera.__thread is None; the fields then hold the constructor's defaults.
NoThread ==
  [exists |-> FALSE, is_started |-> FALSE, frame_time |-> 1000000,
   exposure_time |-> 10, width |-> 640, height |-> 512, os |-> "new"]

\* CameraDataThread.__init__: a thread object that has not been started.
NewThread == [NoThread EXCEPT !.exists = TRUE]

\* Camera.__init__: the feature dictionary.
InitFeatures ==
  [framerate |-> 100, exposuretime |-> 10, width |-> 640, height |-> 512,
   isstarted |-> FALSE]

\* ------------------------------------------------------------ RingBuffer
\* RingBuffer.__init__ and Camera.__init__; the capacity is a parameter.
InitWith(capacity) ==
  /\ size = capacity
  /\ frames = [i \in 0..(size - 1) |-> 0]
  /\ write_index = 0
  /\ read_index = 0
  /\ write_count = 0
  /\ read_count = 0
  /\ lock = FALSE
  /\ ppc = "idle"
  /\ cpc = "idle"
  /\ op = "none"
  /\ arg = NoArg
  /\ ret = "-"
  /\ pop_result = 0
  /\ features = InitFeatures
  /\ thread = NoThread
  /\ gf_spent = 0
  /\ pushed = 0
  /\ popped = <<>>
  /\ sync_at = -1
  /\ sync_dropped = 0
  /\ first_pop_at = -1

\* A RingBuffer(size) of any capacity from 1 to MaxCapacity.
InitRB == \E capacity \in 1..MaxCapacity : InitWith(capacity)

\* A Camera: Camera.__init__ builds RingBuffer(100), scaled here to CamCapacity slots.
Init == InitWith(CamCapacity)

\* push, line 58: self.__lock.acquire()
PushAcquire ==
  /\ ppc = "push_acq"
  /\ lock = FALSE
  /\ lock' = TRUE
  /\ ppc' = "push_body"
  /\ UNCHANGED <<size, frames, write_index, read_index, write_count, read_count,
                 cpc, callvars, pop_result, camvars, histvars>>

\* push, lines 59-61: store the frame, advance the write index, count the write.
PushBody ==
  /\ ppc = "push_body"
  /\ frames' = [frames EXCEPT ![write_index] = pushed + 1]
  /\ write_index' = (write_index + 1) % size
  /\ write_count' = write_count + 1
  /\ pushed' = pushed + 1
  /\ ppc' = "push_rel"
  /\ UNCHANGED <<size, read_index, read_count, lock, cpc, callvars, pop_result,
                 camvars, popped, sync_at, sync_dropped, first_pop_at>>

\* push, line 62: self.__lock.release(); the producer's loop continues.
PushRelease ==
  /\ ppc = "push_rel"
  /\ lock' = FALSE
  /\ ppc' = IF thread.os = "alive" THEN "run" ELSE "idle"
  /\ UNCHANGED <<size, frames, write_index, read_index, write_count, read_count,
                 cpc, callvars, pop_result, camvars, histvars>>

\* pop, line 67: self.__lock.acquire()
PopAcquire ==
  /\ cpc = "pop_acq"
  /\ lock = FALSE
  /\ lock' = TRUE
  /\ cpc' = "pop_body"
  /\ UNCHANGED <<size, frames, write_index, read_index, write_count, read_count,
                 ppc, callvars, pop_result, camvars, histvars>>

\* PopIsEmpty without the index comparison of line 68.
PopIsEmpty_CountsOnly == read_count > write_count

\* pop, line 68: the condition under which pop reports empty.
PopIsEmpty == read_count > write_count \/ read_index = write_index

\* PopBody that clears the slot it has read.
PopBody_ClearsSlot ==
  /\ cpc = "pop_body"
  /\ first_pop_at' = IF first_pop_at = -1 THEN pushed ELSE first_pop_at
  /\ IF PopIsEmpty
       THEN /\ pop_result' = 0
            /\ cpc' = "pop_rel_empty"
            /\ UNCHANGED <<frames, read_index, read_count, popped>>
       ELSE /\ pop_result' = frames[read_index]
            /\ frames' = [frames EXCEPT ![read_index] = 0]
            /\ read_index' = (read_index + 1) % size
            /\ read_count' = read_count + 1
            /\ popped' = Append(popped, frames[read_index])
            /\ cpc' = "pop_rel_frame"
  /\ UNCHANGED <<size, write_index, write_count, lock, ppc, callvars, camvars,
                 pushed, sync_at, sync_dropped>>

\* PopBody without line 73: the read index is not advanced.
PopBody_NoAdvance ==
  /\ cpc = "pop_body"
  /\ first_pop_at' = IF first_pop_at = -1 THEN pushed ELSE first_pop_at
  /\ IF PopIsEmpty
       THEN /\ pop_result' = 0
            /\ cpc' = "pop_rel_empty"
            /\ UNCHANGED <<read_index, read_count, popped>>
       ELSE /\ pop_result' = frames[read_index]
            /\ read_index' = read_index
            /\ read_count' = read_count + 1
            /\ popped' = Append(popped, frames[read_index])
            /\ cpc' = "pop_rel_frame"
  /\ UNCHANGED <<size, frames, write_index, write_count, lock, ppc, callvars, camvars,
                 pushed, sync_at, sync_dropped>>

\* pop, lines 68 and 72-74: decide empty, or take the frame at the read index.
PopBody ==
  /\ cpc = "pop_body"
  /\ first_pop_at' = IF first_pop_at = -1 THEN pushed ELSE first_pop_at
  /\ IF PopIsEmpty
       THEN /\ pop_result' = 0
            /\ cpc' = "pop_rel_empty"
            /\ UNCHANGED <<read_index, read_count, popped>>
       ELSE /\ pop_result' = frames[read_index]
            /\ read_index' = (read_index + 1) % size
            /\ read_count' = read_count + 1
            /\ popped' = Append(popped, frames[read_index])
            /\ cpc' = "pop_rel_frame"
  /\ UNCHANGED <<size, frames, write_index, write_count, lock, ppc, callvars, camvars,
                 pushed, sync_at, sync_dropped>>

\* PopReleaseEmpty without line 69: the empty path returns with the lock held.
PopReleaseEmpty_KeepsLock ==
  /\ cpc = "pop_rel_empty"
  /\ IF op = "get_frame"
       THEN cpc' = "gf_sleep" /\ ret' = ret
       ELSE cpc' = "idle" /\ ret' = "None"
  /\ UNCHANGED <<size, frames, write_index, read_index, write_count, read_count, lock,
                 ppc, op, arg, pop_result, camvars, histvars>>

\* pop, lines 69-70: release the lock and return None; get_frame then sleeps (line 242).
PopReleaseEmpty ==
  /\ cpc = "pop_rel_empty"
  /\ lock' = FALSE
  /\ IF op = "get_frame"
       THEN cpc' = "gf_sleep" /\ ret' = ret
       ELSE cpc' = "idle" /\ ret' = "None"
  /\ UNCHANGED <<size, frames, write_index, read_index, write_count, read_count,
                 ppc, op, arg, pop_result, camvars, histvars>>

\* pop, lines 75-77: release the lock and return the frame; get_frame returns it
\* (line 244) unless it is None (line 241).
PopReleaseFrame ==
  /\ cpc = "pop_rel_frame"
  /\ lock' = FALSE
  /\ IF op = "get_frame" /\ pop_result = 0
       THEN cpc' = "gf_sleep" /\ ret' = ret /\ gf_spent' = gf_spent
       ELSE /\ cpc' = "idle"
            /\ ret' = (IF pop_result = 0 THEN "None" ELSE "Frame")
            /\ gf_spent' = 0
  /\ UNCHANGED <<size, frames, write_index, read_index, write_count, read_count,
                 ppc, op, arg, pop_result, features, thread, histvars>>

\* sync, line 82: self.__lock.acquire()
SyncAcquire ==
  /\ cpc = "sync_acq"
  /\ lock = FALSE
  /\ lock' = TRUE
  /\ cpc' = "sync_body"
  /\ UNCHANGED <<size, frames, write_index, read_index, write_count, read_count,
                 ppc, callvars, pop_result, camvars, histvars>>

\* SyncBody without line 84: the read counter is not reset.
SyncBody_KeepsReadCount ==
  /\ cpc = "sync_body"
  /\ read_index' = write_index
  /\ write_count' = 0
  /\ sync_at' = pushed
  /\ popped' = <<>>
  /\ first_pop_at' = -1
  /\ sync_dropped' = (write_index - read_index) % size
  /\ cpc' = "sync_rel"
  /\ UNCHANGED <<size, frames, write_index, read_count, lock, ppc, callvars, pop_result,
                 camvars, pushed>>

\* SyncBody with line 83 rewinding the reader to slot 0 instead of the write index.
SyncBody_RewindsToZero ==
  /\ cpc = "sync_body"
  /\ read_index' = 0
  /\ read_count' = 0
  /\ write_count' = 0
  /\ sync_at' = pushed
  /\ popped' = <<>>
  /\ first_pop_at' = -1
  /\ sync_dropped' = (write_index - read_index) % size
  /\ cpc' = "sync_rel"
  /\ UNCHANGED <<size, frames, write_index, lock, ppc, callvars, pop_result, camvars,
                 pushed>>

\* sync, lines 83-85: the reader jumps to the writer and both counters restart.
SyncBody ==
  /\ cpc = "sync_body"
  /\ read_index' = write_index
  /\ read_count' = 0
  /\ write_count' = 0
  /\ sync_at' = pushed
  /\ popped' = <<>>
  /\ first_pop_at' = -1
  /\ sync_dropped' = (write_index - read_index) % size
  /\ cpc' = "sync_rel"
  /\ UNCHANGED <<size, frames, write_index, lock, ppc, callvars, pop_result, camvars,
                 pushed>>

\* sync, line 86: release the lock; __start goes on to thread.start() (line 338),
\* get_frame to its poll loop (line 239).
SyncRelease ==
  /\ cpc = "sync_rel"
  /\ lock' = FALSE
  /\ cpc' = CASE op = "start" -> "thread_start"
              [] op = "get_frame" -> "gf_loop"
              [] OTHER -> "idle"
  /\ ret' = IF op = "sync" THEN "None" ELSE ret
  /\ UNCHANGED <<size, frames, write_index, read_index, write_count, read_count,
                 ppc, op, arg, pop_result, camvars, histvars>>

\* ---------------------------------------- direct use of a RingBuffer
\* A producer context calls RingBuffer.push(frame).
PushCall ==
  /\ ppc = "idle"
  /\ pushed < MaxPushes
  /\ ppc' = "push_acq"
  /\ UNCHANGED <<rbvars, cpc, callvars, pop_result, camvars, histvars>>

\* The consumer context calls RingBuffer.pop().
PopCall ==
  /\ cpc = "idle"
  /\ op' = "pop"
  /\ arg' = NoArg
  /\ ret' = "-"
  /\ cpc' = "pop_acq"
  /\ UNCHANGED <<rbvars, ppc, pop_result, camvars, histvars>>

\* The consumer context calls RingBuffer.sync().
SyncCall ==
  /\ cpc = "idle"
  /\ op' = "sync"
  /\ arg' = NoArg
  /\ ret' = "-"
  /\ cpc' = "sync_acq"
  /\ UNCHANGED <<rbvars, ppc, pop_result, camvars, histvars>>

PushStep == PushAcquire \/ PushBody \/ PushRelease
PopStep == PopAcquire \/ PopBody \/ PopReleaseEmpty \/ PopReleaseFrame
SyncStep == SyncAcquire \/ SyncBody \/ SyncRelease

\* A RingBuffer shared by one producer context and one consumer context.
NextRB == PushCall \/ PopCall \/ SyncCall \/ PushStep \/ PopStep \/ SyncStep

SpecRB == InitRB /\ [][NextRB]_vars

\* ------------------------------------------------- CameraDataThread.run
\* run, lines 110-114: the loop finds is_started set and a frame is due (always
\* so on the first pass, prev_time being 0); it generates a frame and calls push.
RunPush ==
  /\ ppc \in {"run0", "run"}
  /\ thread.is_started
  /\ pushed < CamMaxPushes
  /\ ppc' = "push_acq"
  /\ UNCHANGED <<rbvars, cpc, callvars, pop_result, camvars, histvars>>

\* run, line 110: the loop finds is_started cleared and the thread ends.
RunExit ==
  /\ ppc \in {"run0", "run"}
  /\ ~thread.is_started
  /\ thread' = [thread EXCEPT !.os = "dead"]
  /\ ppc' = "idle"
  /\ UNCHANGED <<rbvars, cpc, callvars, pop_result, features, gf_spent, histvars>>

\* ---------------------------------------------------------------- Camera
\* The arguments the setters and get_frame are called with.
FrameRateInputs == {NotANumber, Num(5), Num(100), Num(500), Num(510)}
ExposureInputs == {NotANumber, Num(0), Num(300), Num(301)}
PixelInputs == {NotANumber, Num(995), Num(2005), Num(10005)}
TimeoutInputs == {0, 2}

Min(a, b) == IF a < b THEN a ELSE b

\* CameraDataThread.setFrameRate: 1.0 / framerate, in microseconds.
ThreadFrameTime(framerate) == 10000000 \div framerate

\* __adjustExposureTime, line 288: 1000.0 / framerate, in tenths of ms.
FrameTimeMs(framerate) == 100000 \div framerate

\* AdjustExposureTime without line 291: the stored exposure is returned as it is.
AdjustExposureTime_NoClamp(framerate) == features.exposuretime

\* __adjustExposureTime: the stored exposure limited to the frame time.
AdjustExposureTime(framerate) == Min(features.exposuretime, FrameTimeMs(framerate))

\* CreateThread whose new thread object counts as started.
CreateThread_Started ==
  IF thread.exists THEN thread ELSE [NewThread EXCEPT !.is_started = TRUE]

\* __createThread: the thread object after the call.
CreateThread == IF thread.exists THEN thread ELSE NewThread

\* FrameRateRejected without the upper limit of line 255.
FrameRateRejected_NoUpperLimit(a) == ~IsNumber(a) \/ a.v < 10

\* __setFrameRate, line 255: the argument is refused.
FrameRateRejected(a) == ~IsNumber(a) \/ a.v < 10 \/ a.v > 500

\* __setExposureTime, line 273: the argument is refused.
ExposureRejected(a) == ~IsNumber(a) \/ a.v < 1 \/ a.v > 300

\* __setWidth, line 297, and __setHeight, line 311: the argument is refused.
PixelsRejected(a) == ~IsNumber(a) \/ a.v < 1000 \/ a.v > 10000

\* int(width), int(height): truncation of a positive number to whole pixels.
ToInt(v) == v \div 10

\* __setFrameRate.
SetFrameRate(a) ==
  /\ cpc = "idle"
  /\ op' = "framerate"
  /\ arg' = a
  /\ IF FrameRateRejected(a)
       THEN /\ ret' = "False"
            /\ UNCHANGED <<features, thread>>
       ELSE /\ features' = [features EXCEPT !.framerate = a.v,
                                            !.exposuretime = AdjustExposureTime(a.v)]
            /\ thread' = [CreateThread EXCEPT
                            !.frame_time = ThreadFrameTime(features'.framerate),
                            !.exposure_time = features'.exposuretime]
            /\ ret' = "True"
  /\ UNCHANGED <<rbvars, ppc, cpc, pop_result, gf_spent, histvars>>

\* __setExposureTime.
SetExposureTime(a) ==
  /\ cpc = "idle"
  /\ op' = "exposuretime"
  /\ arg' = a
  /\ IF ExposureRejected(a)
       THEN /\ ret' = "False"
            /\ UNCHANGED <<features, thread>>
       ELSE /\ features' = [features EXCEPT !.exposuretime = a.v]
            /\ thread' = [CreateThread EXCEPT !.exposure_time = a.v]
            /\ ret' = "True"
  /\ UNCHANGED <<rbvars, ppc, cpc, pop_result, gf_spent, histvars>>

\* __setWidth: line 302 dereferences self.__thread, which may be None.
SetWidth(a) ==
  /\ cpc = "idle"
  /\ op' = "width"
  /\ arg' = a
  /\ IF PixelsRejected(a)
       THEN /\ ret' = "False"
            /\ UNCHANGED <<features, thread>>
       ELSE /\ features' = [features EXCEPT !.width = ToInt(a.v)]
            /\ IF thread.exists
                 THEN thread' = [thread EXCEPT !.width = ToInt(a.v)] /\ ret' = "True"
                 ELSE thread' = thread /\ ret' = "AttributeError"
  /\ UNCHANGED <<rbvars, ppc, cpc, pop_result, gf_spent, histvars>>

\* __setHeight: line 316 dereferences self.__thread, which may be None.
SetHeight(a) ==
  /\ cpc = "idle"
  /\ op' = "height"
  /\ arg' = a
  /\ IF PixelsRejected(a)
       THEN /\ ret' = "False"
            /\ UNCHANGED <<features, thread>>
       ELSE /\ features' = [features EXCEPT !.height = ToInt(a.v)]
            /\ IF thread.exists
                 THEN thread' = [thread EXCEPT !.height = ToInt(a.v)] /\ ret' = "True"
                 ELSE thread' = thread /\ ret' = "AttributeError"
  /\ UNCHANGED <<rbvars, ppc, cpc, pop_result, gf_spent, histvars>>

\* StartCall without line 335: the stored width is not passed to the thread.
StartCall_NoWidth ==
  /\ cpc = "idle"
  /\ op' = "start"
  /\ arg' = NoArg
  /\ ret' = "-"
  /\ features' = [features EXCEPT !.isstarted = TRUE]
  /\ thread' = [CreateThread EXCEPT
                  !.frame_time = ThreadFrameTime(features.framerate),
                  !.exposure_time = features.exposuretime,
                  !.height = features.height]
  /\ cpc' = "sync_acq"
  /\ UNCHANGED <<rbvars, ppc, pop_result, gf_spent, histvars>>

\* __start, lines 331-337: flag, producer, the four values, then buffer.sync().
StartCall ==
  /\ cpc = "idle"
  /\ op' = "start"
  /\ arg' = NoArg
  /\ ret' = "-"
  /\ features' = [features EXCEPT !.isstarted = TRUE]
  /\ thread' = [CreateThread EXCEPT
                  !.frame_time = ThreadFrameTime(features.framerate),
                  !.exposure_time = features.exposuretime,
                  !.width = features.width,
                  !.height = features.height]
  /\ cpc' = "sync_acq"
  /\ UNCHANGED <<rbvars, ppc, pop_result, gf_spent, histvars>>

\* CameraDataThread.start, line 139: self.stop(), up to its join (lines 145-148).
ThreadStartStop ==
  /\ cpc = "thread_start"
  /\ IF thread.is_started
       THEN thread' = [thread EXCEPT !.is_started = FALSE] /\ cpc' = "start_join"
       ELSE thread' = thread /\ cpc' = "thread_launch"
  /\ UNCHANGED <<rbvars, ppc, callvars, pop_result, features, gf_spent, histvars>>

\* CameraDataThread.stop, line 149, called from start: join() returns once the
\* thread has ended, and raises on a thread that was never started (caught at line 340).
StartJoin ==
  /\ cpc = "start_join"
  /\ thread.os # "alive"
  /\ IF thread.os = "new"
       THEN cpc' = "idle" /\ ret' = "False"
       ELSE cpc' = "thread_launch" /\ ret' = ret
  /\ UNCHANGED <<rbvars, ppc, op, arg, pop_result, camvars, histvars>>

\* CameraDataThread.start, lines 140-141: Thread.start() raises on a thread object
\* that was started before (caught at line 340); __start returns at 339 or 341.
ThreadLaunch ==
  /\ cpc = "thread_launch"
  /\ IF thread.os = "new"
       THEN /\ thread' = [thread EXCEPT !.is_started = TRUE, !.os = "alive"]
            /\ ppc' = "run0"
            /\ ret' = "True"
       ELSE /\ thread' = [thread EXCEPT !.is_started = TRUE]
            /\ ppc' = ppc
            /\ ret' = "False"
  /\ cpc' = "idle"
  /\ UNCHANGED <<rbvars, op, arg, pop_result, features, gf_spent, histvars>>

\* StopCall that drops the thread object without stopping and joining it.
StopCall_DropsThread ==
  /\ cpc = "idle"
  /\ op' = "stop"
  /\ arg' = NoArg
  /\ features' = [features EXCEPT !.isstarted = FALSE]
  /\ thread' = NoThread
  /\ cpc' = "idle"
  /\ ret' = IF thread.exists THEN "True" ELSE "False"
  /\ UNCHANGED <<rbvars, ppc, pop_result, gf_spent, histvars>>

\* StopCall without line 346: the isstarted feature is left as it was.
StopCall_KeepsFlag ==
  /\ cpc = "idle"
  /\ op' = "stop"
  /\ arg' = NoArg
  /\ features' = features
  /\ IF ~thread.exists
       THEN thread' = thread /\ cpc' = "idle" /\ ret' = "False"
       ELSE IF ~thread.is_started
              THEN thread' = NoThread /\ cpc' = "idle" /\ ret' = "True"
              ELSE /\ thread' = [thread EXCEPT !.is_started = FALSE]
                   /\ cpc' = "stop_join"
                   /\ ret' = "-"
  /\ UNCHANGED <<rbvars, ppc, pop_result, gf_spent, histvars>>

\* __stop, lines 346-347 and CameraDataThread.stop up to its join.
StopCall ==
  /\ cpc = "idle"
  /\ op' = "stop"
  /\ arg' = NoArg
  /\ features' = [features EXCEPT !.isstarted = FALSE]
  /\ IF ~thread.exists
       THEN thread' = thread /\ cpc' = "idle" /\ ret' = "False"
       ELSE IF ~thread.is_started
              THEN thread' = NoThread /\ cpc' = "idle" /\ ret' = "True"
              ELSE /\ thread' = [thread EXCEPT !.is_started = FALSE]
                   /\ cpc' = "stop_join"
                   /\ ret' = "-"
  /\ UNCHANGED <<rbvars, ppc, pop_result, gf_spent, histvars>>

\* StopJoin without the join of line 149: stop returns while the loop may still run.
StopJoin_NoWait ==
  /\ cpc = "stop_join"
  /\ thread' = NoThread
  /\ ret' = "True"
  /\ cpc' = "idle"
  /\ UNCHANGED <<rbvars, ppc, op, arg, pop_result, features, gf_spent, histvars>>

\* StopJoin without line 348: the controller keeps the joined thread object.
StopJoin_KeepsThread ==
  /\ cpc = "stop_join"
  /\ thread.os # "alive"
  /\ thread' = thread
  /\ ret' = IF thread.os = "new" THEN "False" ELSE "True"
  /\ cpc' = "idle"
  /\ UNCHANGED <<rbvars, ppc, op, arg, pop_result, features, gf_spent, histvars>>

\* CameraDataThread.stop, line 149, then __stop, lines 348-349 (351 when join raises).
StopJoin ==
  /\ cpc = "stop_join"
  /\ thread.os # "alive"
  /\ IF thread.os = "new"
       THEN thread' = thread /\ ret' = "False"
       ELSE thread' = NoThread /\ ret' = "True"
  /\ cpc' = "idle"
  /\ UNCHANGED <<rbvars, ppc, op, arg, pop_result, features, gf_spent, histvars>>

\* get_frame, lines 232-237.
GetFrameCall(timeout, sync) ==
  /\ cpc = "idle"
  /\ op' = "get_frame"
  /\ arg' = Num(timeout)
  /\ ret' = "-"
  /\ gf_spent' = 0
  /\ cpc' = IF sync THEN "sync_acq" ELSE "gf_loop"
  /\ UNCHANGED <<rbvars, ppc, pop_result, features, thread, histvars>>

\* get_frame, line 239: poll again, or fall out of the loop and return None
\* (time_spent is a local: it is gone once get_frame has returned).
GfLoop ==
  /\ cpc = "gf_loop"
  /\ IF gf_spent < arg.v
       THEN cpc' = "pop_acq" /\ ret' = ret /\ gf_spent' = gf_spent
       ELSE cpc' = "idle" /\ ret' = "None" /\ gf_spent' = 0
  /\ UNCHANGED <<rbvars, ppc, op, arg, pop_result, features, thread, histvars>>

\* GfSleep with a time measurement that never advances.
GfSleep_NoProgress ==
  /\ cpc = "gf_sleep"
  /\ gf_spent' = gf_spent
  /\ cpc' = "gf_loop"
  /\ UNCHANGED <<rbvars, ppc, callvars, pop_result, features, thread, histvars>>

\* get_frame, lines 242 and 246-247: sleep, then measure the time spent; every
\* measurement at or beyond the timeout is represented by the timeout itself.
GfSleep ==
  /\ cpc = "gf_sleep"
  /\ gf_spent' \in (gf_spent + 1)..arg.v
  /\ cpc' = "gf_loop"
  /\ UNCHANGED <<rbvars, ppc, callvars, pop_result, features, thread, histvars>>

Setter ==
  \/ \E a \in FrameRateInputs : SetFrameRate(a)
  \/ \E a \in ExposureInputs : SetExposureTime(a)
  \/ \E a \in PixelInputs : SetWidth(a)
  \/ \E a \in PixelInputs : SetHeight(a)

StartStep == StartCall \/ ThreadStartStop \/ StartJoin \/ ThreadLaunch
StopStep == StopCall \/ StopJoin
GetFrameStep == (\E t \in TimeoutInputs, sy \in BOOLEAN : GetFrameCall(t, sy)) \/ GfLoop \/ GfSleep
RunStep == RunPush \/ RunExit

\* A Camera: its caller, its producer thread and the RingBuffer between them.
Next ==
  \/ Setter \/ StartStep \/ StopStep \/ GetFrameStep
  \/ RunStep \/ PushStep \/ PopStep \/ SyncStep

Spec == Init /\ [][Next]_vars

\* A Camera whose caller uses start, stop and get_frame only, with both threads
\* scheduled: a thread that can take its next step eventually takes it, and a
\* thread waiting in Lock.acquire() gets the lock if it is released again and again.
NextGF == StartStep \/ StopStep \/ GetFrameStep \/ RunStep \/ PushStep \/ PopStep \/ SyncStep

CallerRuns ==
  WF_vars(GfLoop \/ GfSleep \/ PopBody \/ PopReleaseEmpty \/ PopReleaseFrame
          \/ SyncBody \/ SyncRelease)

LockGranted == SF_vars(PopAcquire) /\ SF_vars(SyncAcquire) /\ SF_vars(PushAcquire)

ProducerRuns == WF_vars(PushBody \/ PushRelease \/ RunExit)

SpecGF == Init /\ [][NextGF]_vars /\ CallerRuns /\ LockGranted /\ ProducerRuns

\* ------------------------------------------------ RingBuffer properties
\* Some sync has run; a push has run since the last sync.
Synced == sync_at >= 0
PushedSinceSync == pushed > sync_at

\* The frames 1..n in push order.
InPushOrder(n) == [i \in 1..n |-> i]

\* The producer is between acquire and release of push.
InPushCS == ppc \in {"push_body", "push_rel"}

\* The caller is between acquire and release of pop or sync.
InCallerCS == cpc \in {"pop_body", "pop_rel_empty", "pop_rel_frame", "sync_body", "sync_rel"}

\* C1: on a fresh buffer used with push and pop only, with at most `size`
\* frames pushed, the non-empty pops return the frames in push order and pop
\* reports empty only when every pushed frame has been popped.
C1_FifoWithinCapacity ==
  (~Synced /\ pushed <= size) =>
    /\ popped = InPushOrder(Len(popped))
    /\ (cpc = "pop_rel_empty" => Len(popped) = pushed)

\* C2: n > size pushes before the first pop and none after it: when pop
\* reports empty, the pops have returned exactly the newest `size` frames,
\* oldest first.
C2_OverflowKeepsNewest ==
  (~Synced /\ first_pop_at = pushed /\ pushed > size /\ cpc = "pop_rel_empty") =>
    popped = [i \in 1..size |-> pushed - size + i]

\* C3: read_count never exceeds write_count.
C3_ReadCountAtMostWriteCount == read_count <= write_count

\* C3 witness: after a sync, the writer has wrapped around and the reader has read.
C3_Witness == Synced /\ write_count > size /\ read_count >= 1

\* C4: a pop that runs after a sync with no push in between reports empty.
C4_SyncThenPopEmpty ==
  (cpc \in {"pop_rel_empty", "pop_rel_frame"} /\ Synced /\ ~PushedSinceSync) =>
    (cpc = "pop_rel_empty" /\ pop_result = 0)

\* C4 witness: the sync discarded unread frames and the next pop reported empty.
C4_Witness ==
  cpc = "pop_rel_empty" /\ Synced /\ ~PushedSinceSync /\ sync_dropped > 0

\* C5: push, pop and sync exclude one another, and the lock is held exactly
\* while one of them is between its acquire and its release.
C5_MutualExclusion ==
  /\ ~(InPushCS /\ InCallerCS)
  /\ lock <=> (InPushCS \/ InCallerCS)

\* C5 witness: the producer is inside push while the caller waits for the lock,
\* after a pop has already left through its empty path.
C5_Witness ==
  InPushCS /\ lock /\ cpc \in {"pop_acq", "sync_acq"} /\ first_pop_at = 0

\* ---------------------------------------------------- Camera properties
\* The valid ranges, in the model's units: 1.0..50.0 Hz, 0.1..30.0 ms, 100..1000 pixels.
FrameRateInRange(a) == a.num /\ 10 <= a.v /\ a.v <= 500
ExposureInRange(a) == a.num /\ 1 <= a.v /\ a.v <= 300
PixelsInRange(a) == a.num /\ 1000 <= a.v /\ a.v <= 10000

C7_PixelSetterCreatesProducer ==
  (cpc = "idle" /\ op \in {"width", "height"} /\ PixelsInRange(arg)) =>
    (ret = "True" /\ thread.exists)

\* C8: the stored exposure time never exceeds one frame period.
C8_ExposureWithinFramePeriod ==
  features.exposuretime <= FrameTimeMs(features.framerate)

\* C9: a successful setExposureTime(x) followed by a successful setFrameRate(r)
\* stores min(x, 1000/r) as the exposure time and forwards the same value.
C9_ClampOnFrameRate ==
  [][ \A r \in FrameRateInputs :
        (op = "exposuretime" /\ ret = "True" /\ SetFrameRate(r) /\ ret' = "True") =>
          /\ features'.exposuretime =
               (IF arg.v > FrameTimeMs(r.v) THEN FrameTimeMs(r.v) ELSE arg.v)
          /\ thread'.exposure_time = features'.exposuretime
    ]_vars

\* C9 witness: 30 ms was clamped to the 20 ms period of 50 Hz and forwarded.
C9_Witness ==
  /\ cpc = "idle" /\ op = "framerate" /\ arg = Num(500) /\ ret = "True"
  /\ features.exposuretime = 200 /\ thread.exposure_time = 200

C11_FailedStartIsStopped ==
  (cpc = "idle" /\ op = "start" /\ ret = "False") =>
    (~features.isstarted /\ thread.os # "alive" /\ ppc = "idle")

\* C12: frames are pushed only by the live thread of the controller's current
\* producer: none after the stop() that ended a run has returned, and so none
\* before the launch that follows the sync of the next start().
C12_NoPushAfterStop ==
  [][ (pushed' # pushed) => (thread.exists /\ thread.os = "alive") ]_vars

\* C12 witness: stop() waits in join while the producer is inside a push.
C12_Witness == cpc = "stop_join" /\ ppc = "push_body"

\* C13: every frame a pop has returned since the last sync was pushed after
\* that sync, and no pop returns an unset slot.
C13_PoppedAfterSync ==
  \A i \in 1..Len(popped) : popped[i] # 0 /\ popped[i] > sync_at

\* C13 witness: get_frame returned a frame although the buffer still held
\* frames pushed before the last sync.
C13_Witness ==
  cpc = "idle" /\ op = "get_frame" /\ ret = "Frame" /\ sync_at >= 1 /\ Len(popped) >= 1

\* C14: get_frame never raises and returns a frame taken from pop or None; it
\* returns None only once the time spent has reached the timeout; and every
\* get_frame call returns.
C14_GetFrameTerminates ==
  /\ [](( cpc = "idle" /\ op = "get_frame") =>
          (ret \in {"Frame", "None"} /\ (ret = "Frame" => pop_result # 0)))
  /\ [][ (op = "get_frame" /\ cpc # "idle" /\ cpc' = "idle" /\ ret' = "None") =>
           gf_spent >= arg.v ]_vars
  /\ ((op = "get_frame" /\ cpc # "idle") ~> (cpc = "idle"))

\* C14 witness: get_frame with a positive timeout on a controller that was never
\* started has returned None.
C14_Witness ==
  /\ cpc = "idle" /\ op = "get_frame" /\ arg = Num(2) /\ ret = "None"
  /\ pushed = 0 /\ ~thread.exists /\ ~features.isstarted

\* C15: after every stop the controller holds no producer and none is running;
\* a start called while isstarted is false works on a thread object that was
\* never run, keeps it so until it launches it, and returns True with the
\* producer alive and entering its loop; setters are among the steps of Spec.
C15_StopThenStartSucceeds ==
  /\ []((cpc = "idle" /\ op = "stop") =>
          (~thread.exists /\ ~features.isstarted /\ ppc = "idle"))
  /\ []((cpc = "idle" /\ ~features.isstarted) =>
          (ppc = "idle" /\ thread.os = "new" /\ ~thread.is_started))
  /\ [][ (StartCall /\ ~features.isstarted) =>
           (thread'.exists /\ thread'.os = "new" /\ ~thread'.is_started) ]_vars
  /\ [][ (op = "start" /\ cpc # "idle" /\ thread.os = "new" /\ ~thread.is_started) =>
           \/ (cpc' # "idle" /\ thread'.os = "new" /\ ~thread'.is_started)
           \/ (cpc' = "idle" /\ ret' = "True" /\ thread'.os = "alive"
               /\ thread'.is_started /\ ppc' = "run0") ]_vars

\* C15 witness: a second cycle; a start has returned True after a stop that
\* ended a producer which had pushed, with the frame rate set in between.
C15_Witness ==
  /\ cpc = "idle" /\ op = "start" /\ ret = "True"
  /\ thread.os = "alive" /\ ppc # "idle"
  /\ pushed >= 1 /\ sync_at = pushed
  /\ features.framerate = 500

\* C16: the only producer able to push is the controller's current thread
\* object, alive; a thread object becomes alive only while no producer loop is
\* running, so never two at once, also on start after start.
C16_AtMostOneProducer ==
  /\ [](ppc # "idle" => (thread.exists /\ thread.os = "alive"))
  /\ [][ (thread'.os = "alive" /\ thread.os # "alive") =>
           (ppc = "idle" /\ ppc' = "run0" /\ thread.os = "new") ]_vars

\* C16 witness: a repeated start without a stop waits in join for the one
\* running producer.
C16_Witness ==
  /\ cpc = "start_join" /\ op = "start"
  /\ ppc # "idle" /\ thread.os = "alive"

\* C17: while isstarted is true and the producer is alive, its frame time,
\* exposure time, width and height are the ones of the stored features,
\* whichever setters ran before or run meanwhile.
C17_ProducerConfigMatchesFeatures ==
  (features.isstarted /\ thread.exists /\ thread.os = "alive") =>
    /\ thread.frame_time = ThreadFrameTime(features.framerate)
    /\ thread.exposure_time = features.exposuretime
    /\ thread.width = features.width
    /\ thread.height = features.height

\* C17 witness: a running producer after a successful exposure setter, with a
\* width and a frame rate that are not the initial ones.
C17_Witness ==
  /\ cpc = "idle" /\ op = "exposuretime" /\ ret = "True"
  /\ features.isstarted /\ thread.os = "alive" /\ ppc # "idle"
  /\ features.width # 640 /\ features.framerate # 100
  /\ features.exposuretime = 300

\* C18: a setter call, accepted or refused, leaves the isstarted flag, the
\* producer loop and the thread object's started and alive status as they were;
\* a thread object it creates has not been started.
C18_SettersKeepLifecycle ==
  [][ Setter =>
        /\ features'.isstarted = features.isstarted
        /\ ppc' = ppc
        /\ thread'.os = thread.os
        /\ thread'.is_started = thread.is_started
        /\ (thread'.exists /\ ~thread.exists) =>
             (thread'.os = "new" /\ ~thread'.is_started /\ ppc' = "idle") ]_vars

\* C18 witness: an accepted frame rate setter in the Stopped state has created
\* the producer, which is not running.
C18_Witness ==
  /\ cpc = "idle" /\ op = "framerate" /\ ret = "True"
  /\ ~features.isstarted /\ thread.exists /\ thread.os = "new" /\ ppc = "idle"
  /\ pushed = 0 /\ sync_at = -1

\* C19: the frames returned by the non-empty pops since the most recent sync
\* are in strictly increasing push order; each was pushed after that sync and
\* so after every frame popped before it, a sync being taken at the number of
\* frames pushed so far, which never decreases.
C19_PopsInPushOrder ==
  /\ [](\A i, j \in 1..Len(popped) : i < j => popped[i] < popped[j])
  /\ [](\A i \in 1..Len(popped) : sync_at < popped[i] /\ popped[i] <= pushed)
  /\ [][ /\ sync_at' >= sync_at
         /\ pushed' >= pushed
         /\ (cpc = "sync_body" /\ cpc' = "sync_rel") => sync_at' = pushed ]_vars

\* C19 witness: after a sync, two non-empty pops with frames between them lost
\* to a writer that wrapped around.
C19_Witness ==
  /\ Synced /\ pushed > size
  /\ Len(popped) >= 2 /\ popped[2] > popped[1] + 1

\* C20: a step of push leaves read_index and read_count as they were; a step of
\* pop leaves write_index, write_count and the slots as they were, and all of
\* the indices, counts and slots unless it takes a frame; a step of sync leaves
\* write_index and the slots as they were; both indices stay in 0..size-1.
C20_OperationsKeepToTheirSide ==
  /\ [](write_index \in 0..(size - 1) /\ read_index \in 0..(size - 1))
  /\ [][ (ppc' # ppc) => (read_index' = read_index /\ read_count' = read_count) ]_vars
  /\ [][ (cpc' # cpc /\ op' = "pop") =>
           /\ write_index' = write_index /\ write_count' = write_count
           /\ frames' = frames
           /\ (cpc' # "pop_rel_frame") =>
                (read_index' = read_index /\ read_count' = read_count) ]_vars
  /\ [][ (cpc' # cpc /\ op' = "sync") =>
           (write_index' = write_index /\ frames' = frames) ]_vars

\* C20 witness: a pop has taken a frame from a buffer whose writer has wrapped
\* around, with the producer inside push.
C20_Witness ==
  /\ cpc = "pop_rel_frame" /\ op = "pop" /\ pop_result # 0
  /\ pushed > size /\ Synced
  /\ ppc = "push_acq"

====
